---- MODULE Spec2Model ----
(***************************************************************************)
(* Bank-sync integration (Tink stub, TrueLayer plan).                      *)
(*                                                                         *)
(* Part 1 models the authenticated-request routine of the TrueLayer plan   *)
(* ("Token Refresh Strategy", makeAuthenticatedRequest): the token store   *)
(* of a bank connection, the provider that issues and revokes tokens, and  *)
(* concurrent requests that read the store, refresh, save and fetch.       *)
(* Time is counted in quarters of an hour.                                 *)
(*                                                                         *)
(* Part 2 models the transaction normalizer of the plan ("Normalizer       *)
(* Logic", normalizeTrueLayerTransaction) as an operator applied to        *)
(* provider transactions drawn from a bounded set.                         *)
(*                                                                         *)
(* Part 3 models the Tink stub: the secrets of the sync server, the        *)
(* module-level client of tink-service, the three route handlers of        *)
(* app-tink, and onSubmit of the credential form TinkInitialiseModal.      *)
(***************************************************************************)
EXTENDS Integers, Sequences, FiniteSets, TLC

\* ---- bounds of the model ----
MaxTime == 9
MaxGen == 4
Procs == {1, 2}
Banks == {"b1"}

\* ---- constants of the plan ----
\* "expires_in": 3600 seconds, "Access tokens expire after 1 hour": 4 quarters
ExpiresIn == 4
\* the skew of the "near expiration" check, in quarters (configurable)
Skew == 1

VARIABLES
    now,        \* the clock, in quarters of an hour
    store,      \* bank -> token set saved for the bank (getTokensForBank / saveTokensForBank)
    curGen,     \* bank -> generation of the token set the provider issued last
    revoked,    \* bank -> the provider has revoked the connection's refresh token
    reauth,     \* bank -> some request was told that the refresh token is invalid
    saved,      \* bank -> generations of the token sets ever written to the store
    req,        \* process -> the makeAuthenticatedRequest call it is running
    tx,         \* the provider transaction given to the normalizer
    tz,         \* the process-local timezone, in hours east of UTC
    out,        \* what the normalizer returned for tx, or NoOut before the call
    secrets,    \* secret name -> value held by secretsService
    tinkClient, \* the module-level client of tink-service, NoClient while null
    srv,        \* the HTTP request the sync server is handling
    form        \* the state of TinkInitialiseModal and of its onSubmit run

authVars == <<now, store, curGen, revoked, reauth, saved, req>>
normVars == <<tx, tz, out>>
tinkVars == <<secrets, tinkClient, srv, form>>
vars == <<authVars, normVars, tinkVars>>

\* A token set: access_token and refresh_token of one generation, and the
\* instant at which the access token expires.
Token(g, e) == [gen |-> g, expiresAt |-> e]

NoToken == Token(0, 0)

Statuses == {200, 401, 429}

\* A call that is not running.
IdleReq ==
    [pc |-> "idle", bank |-> "b1", tokens |-> NoToken, events |-> <<>>,
     nearExpiry |-> FALSE, remaining |-> 0, error |-> "none", late |-> FALSE]

\* "Check if token is expired or near expiration"
isTokenExpired(tok) == tok.expiresAt - now < Skew

\* The provider's judgement of an access token at the time of a request.
AccessValid(b, tok) == ~revoked[b] /\ now < tok.expiresAt

\* The answers the provider can give to grant_type=refresh_token with the
\* refresh token of generation g: a revoked token is rejected, the current one
\* is accepted, a rotated-out one may be either; the network may fail.
RefreshAnswers(b, g) ==
    {"network_error"}
    \cup (IF revoked[b] THEN {"invalid_grant"}
          ELSE IF g = curGen[b] THEN {"ok"}
          ELSE {"ok", "invalid_grant"})

\* The answers the provider can give to an API request bearing tok.
FetchAnswers(b, tok) ==
    {429} \cup (IF AccessValid(b, tok) THEN {200} ELSE {401})

\* The three secrets of the integration, in the order onSubmit sets them.
SecretNames == <<"tink_clientId", "tink_clientSecret", "tink_market">>

\* let tinkClient = null
NoClient == [null |-> TRUE]

\* No request is being handled.
IdleSrv ==
    [pc |-> "idle", route |-> "none", body |-> "none", thrown |-> "none",
     sends |-> 0, escaped |-> FALSE, data |-> [none |-> TRUE]]

\* The form as it is mounted: empty fields, valid, not loading, the
\* 'required' message preset, no onSubmit run yet.
RequiredMsg == "It is required to provide the client ID, client secret, and market."

MountedForm ==
    [clientId |-> "", clientSecret |-> "", market |-> "",
     isValid |-> TRUE, isLoading |-> FALSE, error |-> RequiredMsg,
     pc |-> "idle", cap |-> <<"", "", "">>, log |-> <<>>, replies |-> <<>>,
     storedBy |-> {}, outcome |-> "none", dirty |-> FALSE]

\* The Tink stub is at rest: nothing stored, no client, no request, the form
\* just mounted.
TinkIdle ==
    /\ secrets = [n \in {"tink_clientId", "tink_clientSecret", "tink_market"} |-> "undefined"]
    /\ tinkClient = NoClient
    /\ srv = IdleSrv
    /\ form = MountedForm

\* The normalizer is not running.
NormIdle == tx = [none |-> TRUE] /\ tz = 0 /\ out = [none |-> TRUE]

\* The token store right after the connection was linked; no call is running.
AuthIdle ==
    /\ now = 0
    /\ store = [b \in Banks |-> Token(1, ExpiresIn)]
    /\ curGen = [b \in Banks |-> 1]
    /\ revoked = [b \in Banks |-> FALSE]
    /\ reauth = [b \in Banks |-> FALSE]
    /\ saved = [b \in Banks |-> {1}]
    /\ req = [p \in Procs |-> IdleReq]

InitAuth == AuthIdle /\ NormIdle /\ TinkIdle

\* ---- environment ----

\* A quarter of an hour passes.  A write to the store takes less than that.
Tick ==
    /\ now < MaxTime
    /\ \A p \in Procs : req[p].pc # "saving"
    /\ now' = now + 1
    /\ UNCHANGED <<store, curGen, revoked, reauth, saved, req>>

\* The user withdraws the consent, or it runs out: the provider revokes the
\* connection's tokens.
Revoke(b) ==
    /\ ~revoked[b]
    /\ revoked' = [revoked EXCEPT ![b] = TRUE]
    /\ UNCHANGED <<now, store, curGen, reauth, saved, req>>

\* The server process crashes: every call in flight is lost, at whatever
\* point it is; the store keeps what was written.
Crash ==
    /\ \E p \in Procs : req[p].pc # "idle"
    /\ req' = [p \in Procs |-> IdleReq]
    /\ UNCHANGED <<now, store, curGen, revoked, reauth, saved>>

\* ---- makeAuthenticatedRequest(bankId, endpoint) ----

\* The call starts: await getTokensForBank(bankId).
Start(p, b) ==
    /\ req[p].pc = "idle"
    /\ req' = [req EXCEPT ![p] =
                 [IdleReq EXCEPT !.pc = "reading", !.bank = b, !.late = reauth[b]]]
    /\ UNCHANGED <<now, store, curGen, revoked, reauth, saved>>

\* The fetch is sent with the access token of tok.
SendFetch(r, tok) ==
    [r EXCEPT !.pc = "fetching", !.tokens = tok,
              !.remaining = tok.expiresAt - now]

\* ReadReturn without the refresh branch: the cached token is always used.
ReadReturnNoRefresh(p) ==
    /\ req[p].pc = "reading"
    /\ LET tok == store[req[p].bank]
           r == [req[p] EXCEPT !.tokens = tok, !.nearExpiry = isTokenExpired(tok)]
       IN  req' = [req EXCEPT ![p] = SendFetch(r, tok)]
    /\ UNCHANGED <<now, store, curGen, revoked, reauth, saved>>

\* getTokensForBank returns; the token is checked; either the refresh is
\* requested or the fetch is sent.
ReadReturn(p) ==
    /\ req[p].pc = "reading"
    /\ LET tok == store[req[p].bank]
           r == [req[p] EXCEPT !.tokens = tok, !.nearExpiry = isTokenExpired(tok)]
       IN  req' = [req EXCEPT ![p] =
                     IF isTokenExpired(tok)
                     THEN [r EXCEPT !.pc = "refreshing",
                                    !.events = Append(@, "refresh")]
                     ELSE SendFetch(r, tok)]
    /\ UNCHANGED <<now, store, curGen, revoked, reauth, saved>>

\* refreshAccessToken(tokens.refresh_token) returns a new token set or throws.
RefreshReturn(p) ==
    /\ req[p].pc = "refreshing"
    /\ LET b == req[p].bank
       IN  \E a \in RefreshAnswers(b, req[p].tokens.gen) :
             \/ /\ a = "ok"
                /\ curGen[b] < MaxGen
                /\ curGen' = [curGen EXCEPT ![b] = @ + 1]
                /\ req' = [req EXCEPT ![p].pc = "saving",
                                      ![p].tokens = Token(curGen[b] + 1, now + ExpiresIn)]
                /\ UNCHANGED reauth
             \/ /\ a = "invalid_grant"
                /\ req' = [req EXCEPT ![p].pc = "done",
                                      ![p].error = "ReauthorizationRequired"]
                /\ reauth' = [reauth EXCEPT ![b] = TRUE]
                /\ UNCHANGED curGen
             \/ /\ a = "network_error"
                /\ req' = [req EXCEPT ![p].pc = "done", ![p].error = "NetworkError"]
                /\ UNCHANGED <<curGen, reauth>>
    /\ UNCHANGED <<now, store, revoked, saved>>

\* SaveReturn without the write: the new token set is used but not stored.
SaveReturnNoWrite(p) ==
    /\ req[p].pc = "saving"
    /\ req' = [req EXCEPT ![p] = SendFetch(req[p], req[p].tokens)]
    /\ UNCHANGED <<now, store, curGen, revoked, reauth, saved>>

\* saveTokensForBank(bankId, tokens) returns; the fetch is sent.
SaveReturn(p) ==
    /\ req[p].pc = "saving"
    /\ store' = [store EXCEPT ![req[p].bank] = req[p].tokens]
    /\ saved' = [saved EXCEPT ![req[p].bank] = @ \cup {req[p].tokens.gen}]
    /\ req' = [req EXCEPT ![p] = SendFetch(req[p], req[p].tokens)]
    /\ UNCHANGED <<now, curGen, revoked, reauth>>

\* fetch returns the provider's response, whatever its status.
FetchReturn(p) ==
    /\ req[p].pc = "fetching"
    /\ \E s \in FetchAnswers(req[p].bank, req[p].tokens) :
         req' = [req EXCEPT ![p].pc = "done", ![p].events = Append(@, s)]
    /\ UNCHANGED <<now, store, curGen, revoked, reauth, saved>>

\* The caller has the result; the process may make another call.
Finish(p) ==
    /\ req[p].pc = "done"
    /\ req' = [req EXCEPT ![p] = IdleReq]
    /\ UNCHANGED <<now, store, curGen, revoked, reauth, saved>>

NextAuth ==
    \/ Tick
    \/ Crash
    \/ \E b \in Banks : Revoke(b)
    \/ \E p \in Procs, b \in Banks : Start(p, b)
    \/ \E p \in Procs : ReadReturn(p)
    \/ \E p \in Procs : RefreshReturn(p)
    \/ \E p \in Procs : SaveReturn(p)
    \/ \E p \in Procs : FetchReturn(p)
    \/ \E p \in Procs : Finish(p)

SpecAuth == InitAuth /\ [][NextAuth /\ UNCHANGED <<normVars, tinkVars>>]_vars

TypeOK ==
    /\ now \in 0..MaxTime
    /\ \A b \in Banks : curGen[b] \in 1..MaxGen /\ store[b].gen \in 1..MaxGen
    /\ \A p \in Procs : req[p].pc \in {"idle", "reading", "refreshing", "saving", "fetching", "done"}

\* ---- properties of makeAuthenticatedRequest ----

\* The call has handed an access token to fetch.
Sent(r) == r.pc = "fetching" \/ (r.pc = "done" /\ r.error = "none")

\* The responses among the events of a call.
IsStatus(e) == e \in Statuses

\* The position of the first 401 among the events, 0 when there is none.
First401(ev) ==
    IF \E i \in 1..Len(ev) : ev[i] = 401
    THEN CHOOSE i \in 1..Len(ev) : ev[i] = 401 /\ \A j \in 1..(i - 1) : ev[j] # 401
    ELSE 0

\* C4: a request answered with 401 is followed by exactly one refresh and one
\* retry of the request, and nothing more: when the call has ended and a 401
\* was received, the first 401 is followed by one refresh and one response.
C4_RefreshAndRetryOn401 ==
    \A p \in Procs :
        LET ev == req[p].events
            i == First401(ev)
        IN  (req[p].pc = "done" /\ i > 0) =>
                /\ Len(ev) = i + 2
                /\ ev[i + 1] = "refresh"
                /\ IsStatus(ev[i + 2])

C10_RevokedIsTerminal ==
    \A p \in Procs :
        /\ req[p].error = "ReauthorizationRequired" =>
               Cardinality({i \in 1..Len(req[p].events) : req[p].events[i] = "refresh"}) = 1
        /\ req[p].late => ~Sent(req[p])

\* ---- persistence of refreshed token sets ----

\* The generations the provider issued for b that were never written to the
\* store and that no call in flight is about to write: lost by a crash
\* between the provider's response and the write.
LostGens(b) ==
    {g \in 2..curGen[b] :
        /\ g \notin saved[b]
        /\ \A p \in Procs :
             ~(req[p].pc = "saving" /\ req[p].bank = b /\ req[p].tokens.gen = g)}

\* The stored token set can still be used: its access token is valid, or the
\* provider is sure to accept its refresh token.
Usable(b) ==
    \/ AccessValid(b, store[b])
    \/ "invalid_grant" \notin RefreshAnswers(b, store[b].gen)

\* Every token set handed on by a call was written to the store before.
HandedOnAreSaved ==
    \A p \in Procs : Sent(req[p]) => req[p].tokens.gen \in saved[req[p].bank]

Absent == "undefined"

\* An object field that is missing.
AbsentObj == [undefined |-> TRUE]

NoOut == [none |-> TRUE]

\* Days of January 2024 that timestamps of the model fall on, and the days
\* next to them.
Days == 14..16
DayStr(d) ==
    CASE d = 13 -> "2024-01-13"
      [] d = 14 -> "2024-01-14"
      [] d = 15 -> "2024-01-15"
      [] d = 16 -> "2024-01-16"
      [] d = 17 -> "2024-01-17"

\* The time-and-zone part of an ISO 8601 timestamp: hour h at offset o from
\* UTC, "Z" for UTC.
TimeStr(h, o) ==
    (CASE h = 0 -> "00:30:00" [] h = 10 -> "10:30:00" [] h = 23 -> "23:30:00")
    \o (CASE o = 0 -> "Z" [] o = 2 -> "+02:00" [] o = -5 -> "-05:00")

\* An instant: a day, an hour and the offset from UTC it is written at.
Instants == [day : Days, hour : {0, 10, 23}, off : {0, 2, -5}]

\* The ISO 8601 string of an instant, as its pieces: date, "T", time and zone.
Iso(i) == <<DayStr(i.day), "T", TimeStr(i.hour, i.off)>>

\* The calendar date of an instant in the zone z hours east of UTC.
DateIn(i, z) ==
    LET h == i.hour - i.off + z
    IN  DayStr(IF h < 0 THEN i.day - 1 ELSE IF h >= 24 THEN i.day + 1 ELSE i.day)

\* A transaction without a timestamp.
NoInstant == [missing |-> TRUE]

\* What the caller sees when the normalizer throws.
TypeError == [error |-> "TypeError"]

\* The provider transactions of the model.  Amounts are in hundredths.
Balances == {[amount |-> 0, currency |-> "GBP"], [amount |-> 123456, currency |-> "GBP"]}

Inputs ==
    [transaction_id : {Absent, "a6f4e8"},
     instant : Instants \cup {NoInstant},
     description : {Absent, "", "ACME CORP LONDON"},
     merchant_name : {Absent, "", "ACME Corp"},
     transaction_type : {"DEBIT", "CREDIT", "PENDING"},
     amount : {-4250, 0},
     currency : {"GBP", "EUR"},
     running_balance : {AbsentObj} \cup Balances]

\* The timestamp string of a transaction.
timestamp(t) == Iso(t.instant)

\* JavaScript truthiness of a string or object field.
Truthy(v) == v # Absent /\ v # ""

\* a || b
Or(a, b) == IF Truthy(a) THEN a ELSE b

\* s.split('T')[0]: the pieces before the first "T", joined.
SplitT0(s) ==
    LET n == IF \E i \in 1..Len(s) : s[i] = "T"
             THEN CHOOSE i \in 1..Len(s) : s[i] = "T" /\ \A j \in 1..(i - 1) : s[j] # "T"
             ELSE Len(s) + 1
        Join[k \in 0..Len(s)] == IF k = 0 THEN "" ELSE Join[k - 1] \o s[k]
    IN  Join[n - 1]

\* The date of the instant in the process-local timezone.
dateOfLocal(t) == DateIn(t.instant, tz)

\* date: tlTransaction.timestamp.split('T')[0]
dateOf(t) == SplitT0(timestamp(t))

\* booked for every transaction.
bookedAlways(t) == TRUE

\* booked: tlTransaction.transaction_type !== 'PENDING'
bookedOf(t) == t.transaction_type # "PENDING"

\* payeeName: tlTransaction.merchant_name || tlTransaction.description
payeeNameOf(t) == Or(t.merchant_name, t.description)

\* A missing balance turned into a zero balance.
balanceOrZero(t) ==
    IF t.running_balance # AbsentObj
    THEN [amount |-> t.running_balance.amount, currency |-> t.running_balance.currency]
    ELSE [amount |-> 0, currency |-> t.currency]

\* balanceAfterTransaction: running_balance ? {amount, currency} : undefined
balanceOf(t) ==
    IF t.running_balance # AbsentObj
    THEN [amount |-> t.running_balance.amount, currency |-> t.running_balance.currency]
    ELSE AbsentObj

\* Reading .split of a missing timestamp throws a TypeError.
normalizeTrueLayerTransaction(t) ==
    IF t.instant = NoInstant THEN TypeError ELSE
    [transactionId |-> t.transaction_id,
     date |-> dateOf(t),
     payeeName |-> payeeNameOf(t),
     notes |-> t.description,
     booked |-> bookedOf(t),
     transactionAmount |-> [amount |-> t.amount, currency |-> t.currency],
     balanceAfterTransaction |-> balanceOf(t)]

InitNorm ==
    /\ tx \in Inputs
    /\ tz \in {-8, 0, 9}
    /\ out = NoOut
    /\ AuthIdle
    /\ TinkIdle

\* The normalizer is called on tx.
Normalize ==
    /\ out = NoOut
    /\ out' = normalizeTrueLayerTransaction(tx)
    /\ UNCHANGED <<tx, tz>>

NextNorm == Normalize

SpecNorm == InitNorm /\ [][NextNorm /\ UNCHANGED <<authVars, tinkVars>>]_vars

\* The normalizer has returned a transaction.
Returned == out # NoOut /\ out # TypeError

\* C13: the normalized booked flag is false when the input status is PENDING
\* and true for every other status.
C13_BookedIffNotPending ==
    Returned => (out.booked <=> tx.transaction_type # "PENDING")

\* C13, witness: a PENDING transaction was normalized.
C13_Witness ==
    Returned /\ tx.transaction_type = "PENDING" /\ ~out.booked

\* C14: payeeName is the counterparty name when present and non-empty, else
\* the raw description when present and non-empty, else "Unknown"; it is
\* never empty or absent.
C14_PayeeNameNeverEmpty ==
    Returned =>
        /\ out.payeeName = (IF Truthy(tx.merchant_name) THEN tx.merchant_name
                            ELSE IF Truthy(tx.description) THEN tx.description
                            ELSE "Unknown")
        /\ Truthy(out.payeeName)

\* C15: without a running balance the output has no balanceAfterTransaction;
\* with one, the output carries its amount and currency unchanged, a zero
\* amount included.
C15_BalanceAbsentOrUnchanged ==
    Returned =>
        IF tx.running_balance = AbsentObj
        THEN out.balanceAfterTransaction = AbsentObj
        ELSE out.balanceAfterTransaction = tx.running_balance

\* C15, witness: a transaction without a running balance was normalized and
\* the output has no balance.
C15_Witness ==
    /\ Returned
    /\ tx.running_balance = AbsentObj
    /\ out.balanceAfterTransaction = AbsentObj

FieldVals == {"", "b"}
SecretVals == {Absent, "", "a"}

\* secretsService.get(name)
Get(n) == secrets[n]

\* getTinkClient without the null test: a new client at every call.
clientAfterGetAlways ==
    [clientId |-> Get("tink_clientId"), clientSecret |-> Get("tink_clientSecret")]

\* getTinkClient(): the module-level client after the call, created from the
\* stored client id and secret when there was none.
clientAfterGet ==
    IF tinkClient = NoClient
    THEN [clientId |-> Get("tink_clientId"), clientSecret |-> Get("tink_clientSecret")]
    ELSE tinkClient

\* isConfigured that also wants the market.
isConfiguredWithMarket ==
    Truthy(Get("tink_clientId")) /\ Truthy(Get("tink_clientSecret"))
        /\ Truthy(Get("tink_market"))

\* isConfigured: !!(clientId && clientSecret)
isConfigured ==
    Truthy(Get("tink_clientId")) /\ Truthy(Get("tink_clientSecret"))

AccountsMsg == "Tink account fetching not yet implemented"
TransactionsMsg == "Tink transaction fetching not yet implemented"

\* Request bodies of POST /transactions; "none" is a missing body.
Bodies == {"none", "accountId,startDate"}

\* ---- app-tink: the route handlers ----

\* POST /status: answers with isConfigured().
StatusRequest ==
    /\ srv.pc = "idle"
    /\ srv' = [IdleSrv EXCEPT !.pc = "responded", !.route = "/status",
                              !.sends = 1,
                              !.data = [configured |-> isConfigured]]
    /\ UNCHANGED <<secrets, tinkClient, form>>

\* POST /accounts with a getAccounts that returns instead of throwing.
AccountsCallNoThrow ==
    /\ srv.pc = "idle"
    /\ tinkClient' = clientAfterGet
    /\ srv' = [IdleSrv EXCEPT !.pc = "called", !.route = "/accounts"]
    /\ UNCHANGED <<secrets, form>>

\* POST /accounts: tinkService.getAccounts() gets the client and throws.
AccountsCall ==
    /\ srv.pc = "idle"
    /\ tinkClient' = clientAfterGet
    /\ srv' = [IdleSrv EXCEPT !.pc = "called", !.route = "/accounts",
                              !.thrown = AccountsMsg]
    /\ UNCHANGED <<secrets, form>>

\* POST /transactions: tinkService.getTransactions(accountId, startDate) gets
\* the client and throws.
TransactionsCall(b) ==
    /\ srv.pc = "idle"
    /\ tinkClient' = clientAfterGet
    /\ srv' = [IdleSrv EXCEPT !.pc = "called", !.route = "/transactions",
                              !.body = b, !.thrown = TransactionsMsg]
    /\ UNCHANGED <<secrets, form>>

\* The handler without its catch: the error of the service escapes.
RespondNoCatch ==
    /\ srv.pc = "called"
    /\ srv' = [srv EXCEPT !.pc = "responded", !.escaped = (srv.thrown # "none")]
    /\ UNCHANGED <<secrets, tinkClient, form>>

\* The await of the handler ends: res.send with the result, or in the catch
\* with { error: error.message }.
Respond ==
    /\ srv.pc = "called"
    /\ srv' = [srv EXCEPT !.pc = "responded",
                          !.sends = @ + 1,
                          !.data = IF srv.thrown = "none"
                                   THEN [result |-> TRUE]
                                   ELSE [error |-> srv.thrown]]
    /\ UNCHANGED <<secrets, tinkClient, form>>

\* The response is out; the server takes the next request.
NextRequest ==
    /\ srv.pc = "responded"
    /\ srv' = IdleSrv
    /\ UNCHANGED <<secrets, tinkClient, form>>

NextServer ==
    \/ StatusRequest
    \/ AccountsCall
    \/ \E b \in Bodies : TransactionsCall(b)
    \/ Respond
    \/ NextRequest

\* ---- TinkInitialiseModal: the fields and onSubmit ----

\* The user types into a field: the field changes and isValid is set.
Edit(f, v) ==
    /\ form.pc # "closed"
    /\ form[f] # v
    /\ form' = [form EXCEPT ![f] = v, !.isValid = TRUE, !.dirty = TRUE]
    /\ UNCHANGED <<secrets, tinkClient, srv>>

\* A run of onSubmit that has not started yet.
FreshRun(f) ==
    [f EXCEPT !.log = <<>>, !.replies = <<>>, !.storedBy = {}, !.dirty = FALSE]

\* onSubmit without the test for empty fields.
SubmitNoValidation ==
    /\ form.pc = "idle"
    /\ form' = [FreshRun(form) EXCEPT !.isLoading = TRUE,
                                     !.cap = <<form.clientId, form.clientSecret, form.market>>,
                                     !.log = <<SecretNames[1]>>,
                                     !.outcome = "running",
                                     !.pc = "set1"]
    /\ UNCHANGED <<secrets, tinkClient, srv>>

\* onSubmit is called ("Save and continue" is pressed while no run is in
\* flight): with an empty field it sets the 'required' error and returns;
\* otherwise it sets isLoading and sends secret-set for tink_clientId.
Submit ==
    /\ form.pc = "idle"
    /\ form' =
         IF form.clientId = "" \/ form.clientSecret = "" \/ form.market = ""
         THEN [FreshRun(form) EXCEPT !.isValid = FALSE, !.error = RequiredMsg,
                                     !.outcome = "invalid"]
         ELSE [FreshRun(form) EXCEPT !.isLoading = TRUE,
                                     !.cap = <<form.clientId, form.clientSecret, form.market>>,
                                     !.log = <<SecretNames[1]>>,
                                     !.outcome = "running",
                                     !.pc = "set1"]
    /\ UNCHANGED <<secrets, tinkClient, srv>>

\* The replies of send('secret-set', ...): an object without error, nothing
\* at all, or an object with error and reason.
Replies == {"ok", "empty", "error"}

\* What secret-set did to the store when it replies r for the i-th secret:
\* "ok" has stored the value, "error" has not, an empty reply may be either.
SecretSet(i, r, stored) ==
    /\ (r = "ok" => stored) /\ (r = "error" => ~stored)
    /\ secrets' = IF stored THEN [secrets EXCEPT ![SecretNames[i]] = form.cap[i]]
                  ELSE secrets

\* The error exit: setIsLoading(false); setIsValid(false); setError(...).
ErrorExit(f) ==
    [f EXCEPT !.isLoading = FALSE, !.isValid = FALSE, !.error = "secrets-error",
              !.outcome = "error", !.pc = "idle", !.dirty = FALSE]

\* The success exit: setIsValid(true); onSuccess(); setIsLoading(false); close().
SuccessExit(f) ==
    [f EXCEPT !.isValid = TRUE, !.isLoading = FALSE,
              !.log = @ \o <<"onSuccess", "close">>,
              !.outcome = "success", !.pc = "closed", !.dirty = FALSE]

\* The reply to the i-th secret-set arrives (i < 3): on error the run ends,
\* otherwise the next secret-set is sent.
ReplyThenNext(i) ==
    /\ \E r \in Replies, stored \in BOOLEAN :
         /\ SecretSet(i, r, stored)
         /\ LET f == [form EXCEPT !.replies = Append(@, r),
                                  !.storedBy = IF stored THEN @ \cup {SecretNames[i]} ELSE @]
            IN  form' = IF r = "error"
                        THEN ErrorExit(f)
                        ELSE [f EXCEPT !.log = Append(@, SecretNames[i + 1]),
                                       !.pc = IF i = 1 THEN "set2" ELSE "set3"]
    /\ UNCHANGED <<tinkClient, srv>>

\* The reply to secret-set tink_clientId arrives.
Reply1 ==
    /\ form.pc = "set1"
    /\ ReplyThenNext(1)

\* Reply2 that does not look at the error: the third secret is always sent.
Reply2IgnoreError ==
    /\ form.pc = "set2"
    /\ \E r \in Replies, stored \in BOOLEAN :
         /\ SecretSet(2, r, stored)
         /\ form' = [form EXCEPT !.replies = Append(@, r),
                                 !.storedBy = IF stored THEN @ \cup {SecretNames[2]} ELSE @,
                                 !.log = Append(@, SecretNames[3]),
                                 !.pc = "set3"]
    /\ UNCHANGED <<tinkClient, srv>>

\* The reply to secret-set tink_clientSecret arrives.
Reply2 ==
    /\ form.pc = "set2"
    /\ ReplyThenNext(2)

\* Reply3 that undoes the earlier writes when the market cannot be stored.
Reply3RollBack ==
    /\ form.pc = "set3"
    /\ \E r \in Replies, stored \in BOOLEAN :
         /\ (r = "ok" => stored) /\ (r = "error" => ~stored)
         /\ secrets' = IF r = "error"
                       THEN [secrets EXCEPT ![SecretNames[1]] = Absent,
                                            ![SecretNames[2]] = Absent]
                       ELSE IF stored THEN [secrets EXCEPT ![SecretNames[3]] = form.cap[3]]
                       ELSE secrets
         /\ LET f == [form EXCEPT !.replies = Append(@, r),
                                  !.storedBy = IF stored THEN @ \cup {SecretNames[3]} ELSE @]
            IN  form' = IF r = "error"
                        THEN ErrorExit(f)
                        ELSE SuccessExit(f)
    /\ UNCHANGED <<tinkClient, srv>>

\* Reply3 whose error exit forgets setIsLoading(false).
Reply3StillLoading ==
    /\ form.pc = "set3"
    /\ \E r \in Replies, stored \in BOOLEAN :
         /\ SecretSet(3, r, stored)
         /\ LET f == [form EXCEPT !.replies = Append(@, r),
                                  !.storedBy = IF stored THEN @ \cup {SecretNames[3]} ELSE @]
            IN  form' = IF r = "error"
                        THEN [ErrorExit(f) EXCEPT !.isLoading = TRUE]
                        ELSE SuccessExit(f)
    /\ UNCHANGED <<tinkClient, srv>>

\* The reply to secret-set tink_market arrives: on error the run ends;
\* otherwise setIsValid(true); onSuccess(); setIsLoading(false); close().
Reply3 ==
    /\ form.pc = "set3"
    /\ \E r \in Replies, stored \in BOOLEAN :
         /\ SecretSet(3, r, stored)
         /\ LET f == [form EXCEPT !.replies = Append(@, r),
                                  !.storedBy = IF stored THEN @ \cup {SecretNames[3]} ELSE @]
            IN  form' = IF r = "error"
                        THEN ErrorExit(f)
                        ELSE SuccessExit(f)
    /\ UNCHANGED <<tinkClient, srv>>

NextForm ==
    \/ \E f \in {"clientId", "clientSecret", "market"}, v \in FieldVals : Edit(f, v)
    \/ Submit
    \/ Reply1
    \/ Reply2
    \/ Reply3

InitTink ==
    /\ secrets \in [{"tink_clientId", "tink_clientSecret", "tink_market"} -> SecretVals]
    /\ tinkClient = NoClient
    /\ srv = IdleSrv
    /\ form = MountedForm
    /\ AuthIdle
    /\ NormIdle

NextTink == NextServer \/ NextForm

SpecTink == InitTink /\ [][NextTink /\ UNCHANGED <<authVars, normVars>>]_vars

\* The form alone, every reply of secret-set arriving in the end.
SpecFormFair ==
    /\ InitTink
    /\ [][NextForm /\ UNCHANGED <<authVars, normVars>>]_vars
    /\ WF_tinkVars(Reply1) /\ WF_tinkVars(Reply2) /\ WF_tinkVars(Reply3)

TinkTypeOK ==
    /\ form.pc \in {"idle", "set1", "set2", "set3", "closed"}
    /\ srv.pc \in {"idle", "called", "responded"}

\* ---- Claims on the Tink stubs ----

\* A secret holds a non-empty value.
NonEmpty(n) == secrets[n] # Absent /\ secrets[n] # ""

\* The server step that answers POST /status.
StatusStep == srv.pc = "idle" /\ srv'.pc = "responded" /\ srv'.route = "/status"

\* The server step that calls the service for POST /accounts or /transactions.
CallStep == srv.pc = "idle" /\ srv'.pc = "called"

DataRoutes == {"/accounts", "/transactions"}

\* C21: every answer of POST /status carries exactly a boolean configured,
\* which is true exactly when the client id and the client secret stored at
\* the time of the request are both non-empty; the market secret and the
\* cached client play no part.
C21_StatusAnswersConfigured ==
    [][StatusStep =>
          /\ srv'.sends = 1
          /\ DOMAIN srv'.data = {"configured"}
          /\ srv'.data.configured \in BOOLEAN
          /\ srv'.data.configured =
                (NonEmpty("tink_clientId") /\ NonEmpty("tink_clientSecret"))]_vars

\* /status has answered configured = true although the market is not stored
\* and the cached client holds no client id.
C21_Witness ==
    /\ srv.pc = "responded" /\ srv.route = "/status"
    /\ srv.data.configured
    /\ NonEmpty("tink_clientId") /\ NonEmpty("tink_clientSecret")
    /\ ~NonEmpty("tink_market")
    /\ tinkClient # NoClient /\ tinkClient.clientId = Absent

\* C22 (as stated): each of the three handlers answers every request with a
\* "not implemented" error.
C22_AllAnswerNotImplemented ==
    srv.pc = "responded" => "error" \in DOMAIN srv.data

\* C22 (amended): POST /accounts and POST /transactions answer every request
\* with the "not yet implemented" error of their service method; POST /status
\* answers with configured and no error.
C22_DataRoutesNotImplemented ==
    srv.pc = "responded" =>
        /\ srv.route = "/accounts" => srv.data = [error |-> AccountsMsg]
        /\ srv.route = "/transactions" => srv.data = [error |-> TransactionsMsg]
        /\ srv.route = "/status" => DOMAIN srv.data = {"configured"}

\* /accounts has answered with its "not yet implemented" error.
C22_Witness ==
    /\ srv.pc = "responded" /\ srv.route = "/accounts"
    /\ srv.data = [error |-> AccountsMsg]

\* C23: every POST /accounts and POST /transactions request, whatever its
\* body, gets exactly one response; its data is either the result or an
\* object with the error string of the service, never both, and the error
\* does not escape the handler.
C23_OneResponseResultOrError ==
    /\ srv.sends <= 1
    /\ (srv.pc = "responded" /\ srv.route \in DataRoutes) =>
          /\ srv.sends = 1
          /\ ~srv.escaped
          /\ DOMAIN srv.data \in {{"error"}, {"result"}}
          /\ srv.thrown # "none" =>
                DOMAIN srv.data = {"error"} /\ srv.data.error = srv.thrown

\* /transactions was requested without a body and has answered once, with the
\* error of the service.
C23_Witness ==
    /\ srv.pc = "responded" /\ srv.route = "/transactions" /\ srv.body = "none"
    /\ srv.sends = 1 /\ ~srv.escaped
    /\ srv.data = [error |-> TransactionsMsg]

\* C24: there is no process-wide mutable client singleton: no step, and so no
\* service call, changes the module-level client.
C24_NoModuleLevelClient ==
    [][tinkClient' = tinkClient]_vars

\* The step in which onSubmit is called: the fields stay, the form changes.
SubmitStep ==
    /\ form.pc = "idle"
    /\ form'.clientId = form.clientId
    /\ form'.clientSecret = form.clientSecret
    /\ form'.market = form.market
    /\ form' # form

AnyFieldEmpty == form.clientId = "" \/ form.clientSecret = "" \/ form.market = ""

\* C25: onSubmit with an empty field stores nothing: no secret-set is sent,
\* the secrets stay, isValid is false with the 'required' message, isLoading
\* stays false, neither onSuccess nor close is called and the run has ended.
C25_EmptyFieldStoresNothing ==
    [][(SubmitStep /\ AnyFieldEmpty) =>
          /\ secrets' = secrets
          /\ form'.log = <<>>
          /\ ~form'.isValid
          /\ form'.error = RequiredMsg
          /\ ~form.isLoading /\ ~form'.isLoading
          /\ form'.pc = "idle"]_vars

\* onSubmit was called with the client id filled in and the market empty.
C25_Witness ==
    /\ form.outcome = "invalid" /\ ~form.dirty
    /\ form.clientId = "b" /\ form.market = ""
    /\ ~form.isValid /\ form.error = RequiredMsg /\ form.log = <<>>

FullLog == <<"tink_clientId", "tink_clientSecret", "tink_market", "onSuccess", "close">>

IsPrefix(a, b) == Len(a) <= Len(b) /\ \A i \in 1..Len(a) : a[i] = b[i]

NoError(rs) == \A j \in 1..Len(rs) : rs[j] # "error"

\* C26: the secret-set calls go out in the order tink_clientId,
\* tink_clientSecret, tink_market, each only after the one before returned
\* without error (an empty reply is no error); the first reply with an error
\* ends the run with isValid false and the error shown; onSuccess and close
\* are called exactly when all three returned without error, onSuccess first.
C26_InOrderStopAtFirstError ==
    LET k == Len(form.replies)
        sent == IF Len(form.log) < 3 THEN Len(form.log) ELSE 3
    IN  /\ IsPrefix(form.log, FullLog)
        /\ k <= sent /\ sent <= k + 1
        /\ NoError(SubSeq(form.replies, 1, sent - 1))
        /\ ~NoError(form.replies) =>
              /\ sent = k
              /\ form.outcome = "error" /\ form.pc = "idle"
              /\ ~form.dirty => (~form.isValid /\ form.error = "secrets-error")
        /\ (k = 3 /\ NoError(form.replies)) <=> form.log = FullLog
        /\ Len(form.log) > 3 => form.log = FullLog

\* All three calls returned without error, one of them with an empty reply,
\* and onSuccess and close were called.
C26_Witness ==
    /\ form.pc = "closed" /\ form.log = FullLog
    /\ Len(form.replies) = 3 /\ NoError(form.replies)
    /\ form.replies[2] = "empty"

\* Every secret stored by the current run of onSubmit is still stored.
RunStored ==
    \A i \in 1..3 : SecretNames[i] \in form.storedBy =>
                       secrets[SecretNames[i]] = form.cap[i]

\* The run of onSubmit ended with an error after it stored both the client
\* id and the client secret.
FailedAfterBoth ==
    /\ form.outcome = "error"
    /\ {"tink_clientId", "tink_clientSecret"} \subseteq form.storedBy

\* C27: the form does not roll back: after a failed secret-set the secrets
\* stored earlier in the same run stay stored and onSuccess is not called;
\* when the client id and the client secret were stored and the market
\* failed, POST /status answers configured = true.
C27_NoRollBack ==
    [][/\ form'.outcome = "error" =>
             (RunStored' /\ form'.log = SubSeq(FullLog, 1, Len(form'.replies)))
       /\ (FailedAfterBoth /\ StatusStep) => srv'.data.configured]_vars

\* The market failed after the client id and the client secret were stored
\* over an unconfigured store (the client cached before the run has no id);
\* the form shows the error and /status has answered configured = true.
C27_Witness ==
    /\ FailedAfterBoth /\ Len(form.replies) = 3
    /\ ~form.isValid /\ form.error = "secrets-error"
    /\ tinkClient # NoClient /\ tinkClient.clientId = Absent
    /\ secrets["tink_clientId"] = "b" /\ secrets["tink_clientSecret"] = "b"
    /\ srv.pc = "responded" /\ srv.route = "/status" /\ srv.data.configured

\* C28: the module-level client is created only by a getAccounts or
\* getTransactions call made while there is none (a call that then throws),
\* from the client id and secret stored at that moment; once created it
\* never changes, whatever happens to the stored secrets.
C28_ClientCreatedOnceAndKept ==
    [][/\ tinkClient # NoClient => tinkClient' = tinkClient
       /\ (tinkClient = NoClient /\ CallStep) =>
             /\ tinkClient' = [clientId |-> secrets["tink_clientId"],
                               clientSecret |-> secrets["tink_clientSecret"]]
             /\ srv'.thrown # "none"
       /\ (tinkClient = NoClient /\ tinkClient' # NoClient) => CallStep]_vars

\* The cached client holds the credentials of its creation while the store
\* holds other ones: isConfigured is true and the cached client id is empty.
C28_Witness ==
    /\ tinkClient # NoClient
    /\ tinkClient.clientId = "" /\ tinkClient.clientSecret = "a"
    /\ secrets["tink_clientId"] = "b" /\ secrets["tink_clientSecret"] = "b"
    /\ isConfigured

====
